---- MODULE Spec2Model ----
(***************************************************************************)
(* Model of src/main.ts: the vehicle ingestion process.  One Node.js       *)
(* process, one event loop.  A cycle is one run of runCronJob; its awaits  *)
(* (connect, fetch, each query, end) are the points where other callbacks  *)
(* (timer ticks, signal handlers, other cycles) can interleave.            *)
(***************************************************************************)
EXTENDS Integers, Sequences, FiniteSets, TLC

\* ---------------------------------------------------------------- bounds
MaxCycles == 2      \* cycles (runs of runCronJob) started in one behaviour
MaxBatch == 2       \* records in one fetched array
MaxSignals == 2     \* termination signals delivered to the process
MaxTime == 65000    \* the clock stops advancing here (ms)
Quantum == 2500     \* the amount of time one Advance step lets pass (ms)
MaxWall == 9        \* wall-clock readings 0 .. MaxWall in the strings (hours)
DstEnd == 4         \* the UTC hour at which Europe/Bucharest leaves DST

\* ------------------------------------------------------ program constants
Period == 60000         \* setInterval(runCronJob, 60_000)
GraceWindow == 5000     \* setTimeout(resolve, 5000) in gracefulShutdown
NoTime == 0 - 1         \* "no such instant yet" in the time-valued fields

Signals == {"SIGTERM", "SIGINT"}
CanonicalZone == "Europe/Bucharest"

\* -------------------------------------------------- timestamps (luxon)
\* A timestamp string of the API, by its shape:
\*   form "iso"   yyyy-MM-ddTHH:mm:ss followed by Z or a numeric offset
\*                (offset # NoOffset) or by nothing (offset = NoOffset)
\*   form "sql"   yyyy-MM-dd HH:mm:ss, never with an offset
\*   form "other" anything else
\* wall is the wall-clock reading written in the string, offset the written
\* offset, both in hours.
NoOffset == 99

\* zone.offset(instant), in hours: Europe/Bucharest is UTC+3 in summer and
\* UTC+2 from the end of DST on; instants are hours on the UTC time line.
ZoneOffset(zone, instant) ==
    CASE zone = "UTC" -> 0
      [] zone = "Europe/Bucharest" -> IF instant < DstEnd THEN 3 ELSE 2
      [] OTHER -> 0

Invalid == [isValid |-> FALSE, instant |-> 0, zoneName |-> "invalid"]

Min(a, b) == IF a <= b THEN a ELSE b

\* luxon's resolution of a wall-clock reading in a zone (objToTS, fixOffset):
\* the offset of the zone at the current time is the first guess and is
\* corrected at most once; a reading that occurs twice at the end of DST
\* resolves to the instant the first guess selects.
localToInstant(wall, zone, tsNow) ==
    LET o == ZoneOffset(zone, tsNow)
        utcGuess == wall - o
        o2 == ZoneOffset(zone, utcGuess)
        utcGuess2 == utcGuess - (o2 - o)
        o3 == ZoneOffset(zone, utcGuess2)
    IN IF o = o2 THEN utcGuess
       ELSE IF o2 = o3 THEN utcGuess2
       ELSE wall - Min(o2, o3)

\* DateTime.fromISO(s): accepts only the ISO shape.  A written offset fixes
\* the instant; without one the reading is local to the system zone.  The
\* result is expressed in the system zone (setZone option not given).
fromISO(s, sysZone, tsNow) ==
    IF s.form # "iso" THEN Invalid
    ELSE [isValid |-> TRUE,
          instant |-> IF s.offset = NoOffset
                         THEN localToInstant(s.wall, sysZone, tsNow)
                         ELSE s.wall - s.offset,
          zoneName |-> sysZone]

\* DateTime.fromFormat(s, "yyyy-MM-dd HH:mm:ss", {zone}): accepts only the
\* space-separated shape, read as local to the given zone.
fromFormat(s, zone, tsNow) ==
    IF s.form # "sql" THEN Invalid
    ELSE [isValid |-> TRUE, instant |-> localToInstant(s.wall, zone, tsNow),
          zoneName |-> zone]

\* Variant of setZone: the wall-clock reading is kept and the instant moves
\* (setZone with keepLocalTime).
setZone_keepLocalTime(dt, zone) ==
    [dt EXCEPT !.zoneName = zone,
               !.instant = dt.instant + ZoneOffset(dt.zoneName, dt.instant)
                           - ZoneOffset(zone, dt.instant)]

\* ts.setZone(zone): same instant, other zone.
setZone(dt, zone) == [dt EXCEPT !.zoneName = zone]

\* Lines 117-132 of runCronJob: the two parse attempts.
parseTimestamp(s, sysZone, tsNow) ==
    LET ts == fromISO(s, sysZone, tsNow) IN
    IF ~ts.isValid THEN fromFormat(s, CanonicalZone, tsNow)
    ELSE IF ts.zoneName # CanonicalZone THEN setZone(ts, CanonicalZone)
    ELSE ts

\* ------------------------------------------------------------ input sets
\* "2025-11-22T14:15:20.000Z" and a string of neither shape.
IsoUtc == [form |-> "iso", wall |-> 14, offset |-> 0]
Garbage == [form |-> "other", wall |-> 0, offset |-> NoOffset]
SystemZones == {"UTC"}

\* The strings and hosts the normalizer is exercised on by itself: every
\* shape, every reading, offsets of both signs, both sides of the end of DST.
Offsets == {0, 2, 3, 0 - 5}
TimestampStrings ==
    { [form |-> "iso", wall |-> w, offset |-> o] :
        w \in 0 .. MaxWall, o \in Offsets \cup {NoOffset} }
    \cup { [form |-> "sql", wall |-> w, offset |-> NoOffset] :
             w \in 0 .. MaxWall }
    \cup { Garbage }
HostZones == {"UTC", "Europe/Bucharest"}

\* The records the API serves (interface Vehicle, the fields the claims
\* are about): two ids, one of them under two labels, one record with a
\* timestamp of neither shape.
Vehicle ==
    { [id |-> "V1", label |-> "Bus 1", vehicle_type |-> "BUS",
       timestamp |-> IsoUtc],
      [id |-> "V1", label |-> "Bus 1b", vehicle_type |-> "BUS",
       timestamp |-> Garbage],
      [id |-> "V2", label |-> "Tram 2", vehicle_type |-> "TRAM",
       timestamp |-> IsoUtc] }

RECURSIVE SeqsUpTo(_, _)
SeqsUpTo(S, n) ==
    IF n = 0 THEN {<<>>}
    ELSE LET shorter == SeqsUpTo(S, n - 1) IN
         shorter \cup { Append(q, x) : q \in {r \in shorter : Len(r) = n - 1},
                                       x \in S }

Batches == SeqsUpTo(Vehicle, MaxBatch)

\* What the HTTP exchange of one fetch can produce.
\*   "ok"             status 2xx, the body is a JSON array
\*   "httpError"      status not ok (whatever the body)
\*   "transportError" fetch or res.json() threw
\*   "nonArray"       status 2xx, the body is JSON but no array
Responses ==
    { [kind |-> k, body |-> b] : k \in {"ok", "httpError"}, b \in Batches }
    \cup { [kind |-> k, body |-> <<>>] : k \in {"transportError", "nonArray"} }
FetchFailures == {"noBaseUrl", "httpError", "transportError", "nonArray"}

\* The outcome of one call as the cycle sees it: the missing base URL of
\* lines 59-62 comes before any exchange.
fetchOutcome(urlSet, resp) == IF urlSet THEN resp.kind ELSE "noBaseUrl"

\* Variant of fetchFromApi: the res.ok check of lines 80-83 is missing.
fetchFromApi_noStatusCheck(urlSet, resp) ==
    IF ~urlSet THEN <<>>
    ELSE IF resp.kind \in {"ok", "httpError"} THEN resp.body
    ELSE <<>>

\* fetchFromApi: the array of the body on success, [] otherwise.
fetchFromApi(urlSet, resp) ==
    IF ~urlSet THEN <<>>
    ELSE IF resp.kind = "ok" THEN resp.body
    ELSE <<>>

\* ------------------------------------------------------------------ state
VARIABLES
    envOk,          \* all required environment variables are set
    systemZone,     \* the default zone of the host
    started,        \* the top-level script has run
    exited,         \* process.exit was called
    exitCode,       \* its argument
    exitTime,       \* the clock reading at that call
    now,            \* the clock (ms since launch)
    intervalId,     \* the module variable: TRUE once setInterval returned
    timerActive,    \* the interval timer is armed (not cleared)
    nextTick,       \* when the interval timer fires next
    isShuttingDown, \* the module variable
    shutdownAt,     \* when the 5000 ms timer of gracefulShutdown fires
    sigTime,        \* the clock reading at the first signal
    signals,        \* number of signals delivered so far
    sigMidCycle,    \* a cycle was in flight at the first signal
    drainTime,      \* when the last such cycle returned
    nCycles,        \* runs of runCronJob started so far
    fetches,        \* calls of fetchFromApi made so far
    cycles,         \* per run: position and locals
    vehicle,        \* table vehicle: set of rows
    vehicle_state,  \* table vehicle_state: sequence of rows, in insert order
    nowHour,        \* the instant luxon reads as the current time (hours)
    normRaw,        \* normalizer alone: the string handed to it
    normTs,         \* normalizer alone: the DateTime of lines 117-132
    normPc          \* normalizer alone: "off", "start" or "done"

vars == <<envOk, systemZone, started, exited, exitCode, exitTime, now,
          intervalId, timerActive, nextTick, isShuttingDown, shutdownAt,
          sigTime, signals, sigMidCycle, drainTime, nCycles, fetches,
          cycles, vehicle, vehicle_state, nowHour, normRaw, normTs,
          normPc>>

normVars == <<nowHour, normRaw, normTs, normPc>>
procVars == <<envOk, systemZone, started, exited, exitCode, exitTime,
              normVars>>
timerVars == <<intervalId, timerActive, nextTick>>
shutVars == <<isShuttingDown, shutdownAt, sigTime, sigMidCycle>>
storeVars == <<vehicle, vehicle_state>>

CycleIds == 1 .. MaxCycles

\* pc of a run of runCronJob:
\*   "idle"       not started
\*   "connecting" awaiting client.connect()            (line 49)
\*   "fetching"   awaiting fetchFromApi                (line 100)
\*   "upsert"     awaiting the vehicle query           (line 107)
\*   "insert"     awaiting the vehicle_state query     (line 141)
\*   "closing"    awaiting client.end() in finally     (line 154)
\*   "done"       returned
IdleCycle == [pc |-> "idle", client |-> FALSE, connOpen |-> FALSE,
              fetched |-> "none", vehicles |-> <<>>, idx |-> 0,
              failed |-> FALSE]

Running(c) == cycles[c].pc \notin {"idle", "done"}
RunningCycles == {c \in CycleIds : Running(c)}

\* process.exit ends every callback: nothing of the program runs after it.
ProcessAlive == started /\ ~exited

\* The module state before the top-level script has run, the store empty.
ProgramIdle ==
    /\ started = FALSE
    /\ exited = FALSE
    /\ exitCode = NoTime
    /\ exitTime = NoTime
    /\ now = 0
    /\ intervalId = FALSE
    /\ timerActive = FALSE
    /\ nextTick = NoTime
    /\ isShuttingDown = FALSE
    /\ shutdownAt = NoTime
    /\ sigTime = NoTime
    /\ signals = 0
    /\ sigMidCycle = FALSE
    /\ drainTime = NoTime
    /\ nCycles = 0
    /\ fetches = 0
    /\ cycles = [c \in CycleIds |-> IdleCycle]
    /\ vehicle = {}
    /\ vehicle_state = <<>>

Init ==
    /\ envOk \in BOOLEAN
    /\ systemZone \in SystemZones
    /\ ProgramIdle
    /\ nowHour = 0
    /\ normRaw = Garbage
    /\ normTs = Invalid
    /\ normPc = "off"

\* ------------------------------------------------------------ runCronJob
\* Variant of startCronJob: the run takes a client kept at module level
\* instead of connecting, and goes straight to the fetch.
startCronJob_shared(cs, c) ==
    [cs EXCEPT ![c] = [IdleCycle EXCEPT !.pc = "fetching", !.client = TRUE,
                                        !.connOpen = TRUE]]

\* The synchronous head of runCronJob: up to the first await, which is
\* client.connect() inside createDbConnection.
startCronJob(cs, c) ==
    [cs EXCEPT ![c] = [IdleCycle EXCEPT !.pc = "connecting"]]

\* Variant of Startup: line 193 is missing, the first run waits for the
\* first tick.
Startup_noImmediateRun ==
    /\ ~started
    /\ started' = TRUE
    /\ IF envOk
          THEN /\ intervalId' = TRUE
               /\ timerActive' = TRUE
               /\ nextTick' = now + Period
               /\ UNCHANGED <<exited, exitCode, exitTime, nCycles, cycles>>
          ELSE /\ exited' = TRUE
               /\ exitCode' = 1
               /\ exitTime' = now
               /\ UNCHANGED <<timerVars, nCycles, cycles>>
    /\ UNCHANGED <<envOk, systemZone, normVars, now, shutVars, drainTime,
                   signals, fetches, storeVars>>

\* Lines 189-193: validateEnvironment, setInterval, the immediate run.
Startup ==
    /\ ~started
    /\ started' = TRUE
    /\ IF envOk
          THEN /\ intervalId' = TRUE
               /\ timerActive' = TRUE
               /\ nextTick' = now + Period
               /\ nCycles' = 1
               /\ cycles' = startCronJob(cycles, 1)
               /\ UNCHANGED <<exited, exitCode, exitTime>>
          ELSE /\ exited' = TRUE
               /\ exitCode' = 1
               /\ exitTime' = now
               /\ UNCHANGED <<timerVars, nCycles, cycles>>
    /\ UNCHANGED <<envOk, systemZone, normVars, now, shutVars, drainTime,
                   signals, fetches, storeVars>>

\* The interval timer fires: setInterval calls runCronJob, whatever the
\* earlier runs are doing.
Tick ==
    /\ ProcessAlive
    /\ timerActive
    /\ now = nextTick
    /\ nCycles < MaxCycles
    /\ nCycles' = nCycles + 1
    /\ cycles' = startCronJob(cycles, nCycles + 1)
    /\ nextTick' = nextTick + Period
    /\ UNCHANGED <<procVars, now, intervalId, timerActive, shutVars,
                   drainTime, signals, fetches, storeVars>>

\* Variant of toFinally: client.end() sits at the end of the try block, so
\* a run that leaves through catch returns without closing its client.
toFinally_errorSkipsEnd(cy, isError) ==
    IF cy.client /\ ~isError
       THEN [cy EXCEPT !.pc = "closing", !.failed = isError]
       ELSE [cy EXCEPT !.pc = "done", !.failed = isError]

\* The cycle leaves the try block for finally (lines 152-157), normally or
\* through catch: with a client it awaits client.end(), without it returns.
toFinally(cy, isError) ==
    IF cy.client
       THEN [cy EXCEPT !.pc = "closing", !.failed = isError]
       ELSE [IdleCycle EXCEPT !.pc = "done", !.failed = isError]

\* The for loop moves to the record after idx: its upsert is sent, or the
\* loop is over and the cycle completes.
nextRecord(cy) ==
    IF cy.idx < Len(cy.vehicles)
       THEN [cy EXCEPT !.pc = "upsert", !.idx = cy.idx + 1]
       ELSE toFinally(cy, FALSE)

\* Bookkeeping for the shutdown claims: the instant at which the last cycle
\* that was in flight at the first signal has returned.
noteDrain(cs) ==
    IF /\ isShuttingDown /\ sigMidCycle /\ drainTime = NoTime
       /\ \A c \in CycleIds : cs[c].pc \in {"idle", "done"}
       THEN now ELSE drainTime

\* client.connect() resolves: createDbConnection returns the client and the
\* fetch is sent.
ConnectOk(c) ==
    /\ ProcessAlive
    /\ cycles[c].pc = "connecting"
    /\ cycles' = [cycles EXCEPT ![c] = [@ EXCEPT !.pc = "fetching",
                                          !.client = TRUE, !.connOpen = TRUE]]
    /\ fetches' = fetches + 1
    /\ drainTime' = noteDrain(cycles')
    /\ UNCHANGED <<procVars, now, timerVars, shutVars, signals, nCycles,
                   storeVars>>

\* Variant of ConnectFail: the rejection is not caught by runCronJob and
\* ends the process (unhandled rejection, status 1).
ConnectFail_uncaught(c) ==
    /\ ProcessAlive
    /\ cycles[c].pc = "connecting"
    /\ exited' = TRUE
    /\ exitCode' = 1
    /\ exitTime' = now
    /\ UNCHANGED <<envOk, systemZone, normVars, started, now, timerVars,
                   shutVars, drainTime, signals, nCycles, fetches, cycles,
                   storeVars>>

\* client.connect() rejects: createDbConnection rethrows, runCronJob catches;
\* client is still null in finally.
ConnectFail(c) ==
    /\ ProcessAlive
    /\ cycles[c].pc = "connecting"
    /\ cycles' = [cycles EXCEPT ![c] = toFinally(@, TRUE)]
    /\ drainTime' = noteDrain(cycles')
    /\ UNCHANGED <<procVars, now, timerVars, shutVars, signals, nCycles,
                   fetches, storeVars>>

\* fetchFromApi returns; the loop starts on the first record.
FetchReturn(c) ==
    /\ ProcessAlive
    /\ cycles[c].pc = "fetching"
    /\ \E resp \in Responses :
         cycles' = [cycles EXCEPT ![c] =
                      nextRecord([@ EXCEPT
                                    !.fetched = fetchOutcome(envOk, resp),
                                    !.vehicles = fetchFromApi(envOk, resp),
                                    !.idx = 0])]
    /\ drainTime' = noteDrain(cycles')
    /\ UNCHANGED <<procVars, now, timerVars, shutVars, signals, nCycles,
                   fetches, storeVars>>

\* Variant of upsertVehicle: ON CONFLICT (id) DO NOTHING.
upsertVehicle_doNothing(tbl, v) ==
    IF \E r \in tbl : r.id = v.id THEN tbl
    ELSE tbl \cup {[id |-> v.id, label |-> v.label,
                    vehicle_type |-> v.vehicle_type]}

\* INSERT INTO vehicle ... ON CONFLICT (id) DO UPDATE (lines 107-114).
upsertVehicle(tbl, v) ==
    {r \in tbl : r.id # v.id}
    \cup {[id |-> v.id, label |-> v.label, vehicle_type |-> v.vehicle_type]}

\* Variant of insertVehicleState: a row with the same vehicle and timestamp
\* is not inserted again (ON CONFLICT DO NOTHING on a unique key).
insertVehicleState_dedup(tbl, v, instant) ==
    IF \E i \in 1 .. Len(tbl) :
          tbl[i].vehicle_id = v.id /\ tbl[i].timestamp = instant
       THEN tbl
       ELSE Append(tbl, [id |-> Len(tbl) + 1, vehicle_id |-> v.id,
                         timestamp |-> instant])

\* INSERT INTO vehicle_state (lines 141-145); the store assigns the key.
insertVehicleState(tbl, v, instant) ==
    Append(tbl, [id |-> Len(tbl) + 1, vehicle_id |-> v.id,
                 timestamp |-> instant])

\* Variant of UpsertOk: the timestamp is parsed first and a record that
\* fails is skipped before its vehicle row is written.
UpsertOk_validateFirst(c) ==
    /\ ProcessAlive
    /\ cycles[c].pc = "upsert"
    /\ LET cy == cycles[c]
           v == cy.vehicles[cy.idx]
           parsed == parseTimestamp(v.timestamp, systemZone, nowHour)
       IN /\ vehicle' = IF parsed.isValid THEN upsertVehicle(vehicle, v)
                        ELSE vehicle
          /\ cycles' = [cycles EXCEPT ![c] =
                          IF ~parsed.isValid THEN nextRecord(cy)
                          ELSE [cy EXCEPT !.pc = "insert"]]
    /\ drainTime' = noteDrain(cycles')
    /\ UNCHANGED <<procVars, now, timerVars, shutVars, signals, nCycles,
                   fetches, vehicle_state>>

\* Variant of UpsertOk: the isValid check of lines 134-137 is missing.
UpsertOk_unchecked(c) ==
    /\ ProcessAlive
    /\ cycles[c].pc = "upsert"
    /\ LET cy == cycles[c]
           v == cy.vehicles[cy.idx]
       IN /\ vehicle' = upsertVehicle(vehicle, v)
          /\ cycles' = [cycles EXCEPT ![c] = [cy EXCEPT !.pc = "insert"]]
    /\ drainTime' = noteDrain(cycles')
    /\ UNCHANGED <<procVars, now, timerVars, shutVars, signals, nCycles,
                   fetches, vehicle_state>>

\* The upsert is acknowledged; lines 116-145 run up to the next await: the
\* timestamp is parsed, an invalid one skips the record (continue), a valid
\* one sends the vehicle_state insert.
UpsertOk(c) ==
    /\ ProcessAlive
    /\ cycles[c].pc = "upsert"
    /\ LET cy == cycles[c]
           v == cy.vehicles[cy.idx]
           ts == parseTimestamp(v.timestamp, systemZone, nowHour)
       IN /\ vehicle' = upsertVehicle(vehicle, v)
          /\ cycles' = [cycles EXCEPT ![c] =
                          IF ~ts.isValid THEN nextRecord(cy)
                          ELSE [cy EXCEPT !.pc = "insert"]]
    /\ drainTime' = noteDrain(cycles')
    /\ UNCHANGED <<procVars, now, timerVars, shutVars, signals, nCycles,
                   fetches, vehicle_state>>

\* Variant of QueryFail: a rejected upsert is swallowed and the record's
\* vehicle_state insert is sent all the same.
QueryFail_swallowed(c) ==
    /\ ProcessAlive
    /\ cycles[c].pc \in {"upsert", "insert"}
    /\ cycles' = [cycles EXCEPT ![c] =
                    IF @.pc = "upsert" THEN [@ EXCEPT !.pc = "insert"]
                    ELSE toFinally(@, TRUE)]
    /\ drainTime' = noteDrain(cycles')
    /\ UNCHANGED <<procVars, now, timerVars, shutVars, signals, nCycles,
                   fetches, storeVars>>

\* A query rejects: the exception leaves the loop for catch (line 150).
QueryFail(c) ==
    /\ ProcessAlive
    /\ cycles[c].pc \in {"upsert", "insert"}
    /\ cycles' = [cycles EXCEPT ![c] = toFinally(@, TRUE)]
    /\ drainTime' = noteDrain(cycles')
    /\ UNCHANGED <<procVars, now, timerVars, shutVars, signals, nCycles,
                   fetches, storeVars>>

\* The vehicle_state insert is acknowledged; the loop goes on.
InsertOk(c) ==
    /\ ProcessAlive
    /\ cycles[c].pc = "insert"
    /\ LET cy == cycles[c]
           v == cy.vehicles[cy.idx]
           ts == parseTimestamp(v.timestamp, systemZone, nowHour)
       IN /\ vehicle_state' = insertVehicleState(vehicle_state, v, ts.instant)
          /\ cycles' = [cycles EXCEPT ![c] = nextRecord(cy)]
    /\ drainTime' = noteDrain(cycles')
    /\ UNCHANGED <<procVars, now, timerVars, shutVars, signals, nCycles,
                   fetches, vehicle>>

\* client.end() resolves; runCronJob returns.
EndClient(c) ==
    /\ ProcessAlive
    /\ cycles[c].pc = "closing"
    /\ cycles' = [cycles EXCEPT ![c] =
                    [IdleCycle EXCEPT !.pc = "done",
                                      !.failed = cycles[c].failed]]
    /\ drainTime' = noteDrain(cycles')
    /\ UNCHANGED <<procVars, now, timerVars, shutVars, signals, nCycles,
                   fetches, storeVars>>

\* ------------------------------------------------------ gracefulShutdown
\* Variant of gracefulShutdown: no isShuttingDown guard, every signal
\* starts a grace wait of its own and the last one set decides the exit.
gracefulShutdown_unguarded(signal) ==
    /\ ProcessAlive
    /\ signals < MaxSignals
    /\ signals' = signals + 1
    /\ isShuttingDown' = TRUE
    /\ timerActive' = IF intervalId THEN FALSE ELSE timerActive
    /\ shutdownAt' = now + GraceWindow
    /\ sigTime' = IF isShuttingDown THEN sigTime ELSE now
    /\ sigMidCycle' = IF isShuttingDown THEN sigMidCycle
                      ELSE (RunningCycles # {})
    /\ UNCHANGED <<intervalId, nextTick>>
    /\ UNCHANGED <<procVars, now, drainTime, nCycles, fetches, cycles,
                   storeVars>>

\* Variant of gracefulShutdown: the grace timer is set to the period of the
\* scheduler instead of 5000 ms.
gracefulShutdown_longWait(signal) ==
    /\ ProcessAlive
    /\ signals < MaxSignals
    /\ signals' = signals + 1
    /\ IF isShuttingDown
          THEN UNCHANGED <<shutVars, timerVars>>
          ELSE /\ isShuttingDown' = TRUE
               /\ timerActive' = IF intervalId THEN FALSE ELSE timerActive
               /\ shutdownAt' = now + Period
               /\ sigTime' = now
               /\ sigMidCycle' = (RunningCycles # {})
               /\ UNCHANGED <<intervalId, nextTick>>
    /\ UNCHANGED <<procVars, now, drainTime, nCycles, fetches, cycles,
                   storeVars>>

\* Variant of gracefulShutdown: clearInterval is not called.
gracefulShutdown_noClear(signal) ==
    /\ ProcessAlive
    /\ signals < MaxSignals
    /\ signals' = signals + 1
    /\ IF isShuttingDown
          THEN UNCHANGED <<shutVars, timerVars>>
          ELSE /\ isShuttingDown' = TRUE
               /\ shutdownAt' = now + GraceWindow
               /\ sigTime' = now
               /\ sigMidCycle' = (RunningCycles # {})
               /\ UNCHANGED timerVars
    /\ UNCHANGED <<procVars, now, drainTime, nCycles, fetches, cycles,
                   storeVars>>

\* A signal handler runs gracefulShutdown up to its await (lines 164-178).
gracefulShutdown(signal) ==
    /\ ProcessAlive
    /\ signals < MaxSignals
    /\ signals' = signals + 1
    /\ IF isShuttingDown
          THEN UNCHANGED <<shutVars, timerVars>>
          ELSE /\ isShuttingDown' = TRUE
               /\ timerActive' = IF intervalId THEN FALSE ELSE timerActive
               /\ shutdownAt' = now + GraceWindow
               /\ sigTime' = now
               /\ sigMidCycle' = (RunningCycles # {})
               /\ UNCHANGED <<intervalId, nextTick>>
    /\ UNCHANGED <<procVars, now, drainTime, nCycles, fetches, cycles,
                   storeVars>>

\* The 5000 ms timer fires: lines 180-181.
ShutdownComplete ==
    /\ ProcessAlive
    /\ isShuttingDown
    /\ now = shutdownAt
    /\ exited' = TRUE
    /\ exitCode' = 0
    /\ exitTime' = now
    /\ UNCHANGED <<envOk, systemZone, normVars, started, now, timerVars,
                   shutVars, drainTime, signals, nCycles, fetches, cycles,
                   storeVars>>

\* ------------------------------------------------------------------ clock
\* The deadlines of the armed timers.
Deadlines ==
    (IF timerActive THEN {nextTick} ELSE {})
    \cup (IF isShuttingDown THEN {shutdownAt} ELSE {})

\* Time passes, by one quantum or up to the next deadline; a timer that is
\* due fires before the clock moves on (the event loop is never blocked).
Advance ==
    /\ ProcessAlive
    /\ \E t \in {now + Quantum} \cup {d \in Deadlines : d > now} :
         /\ t <= MaxTime
         /\ \A d \in Deadlines : d > now /\ t <= d
         /\ now' = t
    /\ UNCHANGED <<procVars, timerVars, shutVars, drainTime, signals, nCycles,
                   fetches, cycles, storeVars>>

Next ==
    \/ Startup
    \/ Tick
    \/ \E c \in CycleIds : ConnectOk(c)
    \/ \E c \in CycleIds : ConnectFail(c)
    \/ \E c \in CycleIds : FetchReturn(c)
    \/ \E c \in CycleIds : UpsertOk(c)
    \/ \E c \in CycleIds : QueryFail(c)
    \/ \E c \in CycleIds : InsertOk(c)
    \/ \E c \in CycleIds : EndClient(c)
    \/ \E signal \in Signals : gracefulShutdown(signal)
    \/ ShutdownComplete
    \/ Advance

Spec == Init /\ [][Next]_vars

\* Any step of run c of runCronJob.
CycleStep(c) ==
    \/ ConnectOk(c) \/ ConnectFail(c) \/ FetchReturn(c) \/ UpsertOk(c)
    \/ QueryFail(c) \/ InsertOk(c) \/ EndClient(c)

\* The record run c is working on, and whether its timestamp parses.
Current(c) == cycles[c].vehicles[cycles[c].idx]
ValidTimestamp(v) == parseTimestamp(v.timestamp, systemZone, nowHour).isValid
HasVehicle(id) == \E r \in vehicle : r.id = id

\* The vehicle row a record stands for, the connections the process holds
\* open, and the clients it has created (one new Client per run, line 41).
VehicleRow(v) == [id |-> v.id, label |-> v.label, vehicle_type |-> v.vehicle_type]
OpenConnections == {c \in CycleIds : cycles[c].connOpen}
ClientsCreated == nCycles

\* ---------------------------------------------- the normalizer by itself
\* Lines 117-138 applied to one string, on any host zone and on either side
\* of the end of DST; the rest of the program stays idle.
InitNorm ==
    /\ envOk = TRUE
    /\ systemZone \in HostZones
    /\ ProgramIdle
    /\ nowHour \in {0, MaxWall}
    /\ normRaw \in TimestampStrings
    /\ normTs = Invalid
    /\ normPc = "start"

Normalize ==
    /\ normPc = "start"
    /\ normTs' = parseTimestamp(normRaw, systemZone, nowHour)
    /\ normPc' = "done"
    /\ UNCHANGED <<envOk, systemZone, started, exited, exitCode, exitTime,
                   now, timerVars, shutVars, drainTime, signals, nCycles,
                   fetches, cycles, storeVars, nowHour, normRaw>>

NextNorm == Normalize

SpecNorm == InitNorm /\ [][NextNorm]_vars

\* The instant a string with a written offset denotes, and the naive string
\* that a canonical-zone instant is formatted to.
DenotedInstant(s) == s.wall - s.offset
HasOffset(s) == s.form = "iso" /\ s.offset # NoOffset
IsNaive(s) == s.form \in {"iso", "sql"} /\ s.offset = NoOffset
formatNaive(instant, form) ==
    [form |-> form, wall |-> instant + ZoneOffset(CanonicalZone, instant),
     offset |-> NoOffset]
Instants == (0 - 5) .. (MaxWall + 5)

TypeOK ==
    /\ nCycles \in 0 .. MaxCycles
    /\ now \in 0 .. MaxTime
    /\ \A c \in CycleIds : cycles[c].idx \in 0 .. MaxBatch

\* ================================================================ claims

\* C1: at no time are two runs of runCronJob in flight: a tick that arrives
\* while an earlier cycle has not returned starts no second cycle.
C1_NoOverlap == Cardinality(RunningCycles) <= 1

\* C2: every vehicle_state row references an existing vehicle row, and the
\* vehicle_state insert of a record is in flight only once the vehicle row
\* of that record is in the store; also after the process has exited.
C2_StateReferencesVehicle ==
    /\ \A i \in 1 .. Len(vehicle_state) : HasVehicle(vehicle_state[i].vehicle_id)
    /\ \A c \in CycleIds : cycles[c].pc = "insert" => HasVehicle(Current(c).id)

\* Two overlapping cycles have written rows for both ids, and the process
\* has exited while an insert was in flight.
C2_Witness ==
    /\ exited
    /\ Len(vehicle_state) >= 2
    /\ \E i, j \in 1 .. Len(vehicle_state) :
         vehicle_state[i].vehicle_id # vehicle_state[j].vehicle_id
    /\ \E c \in CycleIds : cycles[c].pc = "insert"
    /\ \A c \in CycleIds : cycles[c].pc # "idle"

\* C3: when the vehicle upsert of a record fails, no vehicle_state row is
\* inserted for it and the cycle goes on with the next record of the batch.
C3_UpsertFailureIsolated ==
    [][\A c \in CycleIds :
         (/\ QueryFail(c)
          /\ cycles[c].pc = "upsert"
          /\ cycles[c].idx < Len(cycles[c].vehicles))
         => /\ vehicle_state' = vehicle_state
            /\ cycles'[c].pc = "upsert"
            /\ cycles'[c].idx = cycles[c].idx + 1]_vars

\* C4: a record whose timestamp has neither shape gets no vehicle_state
\* insert (none is ever in flight for it, and the step that handles it
\* leaves the table alone), and unless the upsert itself failed the loop
\* moves on to the next record of the batch.
C4_InvalidTimestampSkipped ==
    /\ [](\A c \in CycleIds : cycles[c].pc = "insert" => ValidTimestamp(Current(c)))
    /\ [][\A c \in CycleIds :
            (/\ cycles[c].pc = "upsert"
             /\ ~ValidTimestamp(Current(c))
             /\ cycles'[c] # cycles[c])
            => /\ vehicle_state' = vehicle_state
               /\ \/ cycles'[c].failed
                  \/ IF cycles[c].idx < Len(cycles[c].vehicles)
                        THEN /\ cycles'[c].pc = "upsert"
                             /\ cycles'[c].idx = cycles[c].idx + 1
                             /\ cycles'[c].vehicles = cycles[c].vehicles
                        ELSE cycles'[c].pc = "closing"]_vars

\* The first record of a batch had a timestamp of neither shape, no row was
\* inserted for it, and the insert of the second record is in flight.
C4_Witness ==
    \E c \in CycleIds :
        /\ cycles[c].pc = "insert"
        /\ cycles[c].idx = 2
        /\ ~ValidTimestamp(cycles[c].vehicles[1])
        /\ vehicle_state = <<>>
        /\ \E r \in vehicle : r.label = cycles[c].vehicles[1].label

\* C5: after a signal that arrived mid-cycle the process exits when the
\* cycle has returned or when the grace window has elapsed, whichever comes
\* first.
C5_ExitAtDrainOrWindow ==
    (exited /\ exitCode = 0 /\ sigMidCycle)
    => exitTime = (IF drainTime # NoTime THEN drainTime
                   ELSE sigTime + GraceWindow)

\* C6: when the process exits through gracefulShutdown no store connection
\* it opened is still open.
C6_ConnectionsReleasedAtExit ==
    (exited /\ exitCode = 0) => \A c \in CycleIds : ~cycles[c].connOpen

\* C7: after the first signal the process is gone, with status 0, at most
\* one grace window later, a running cycle or not; from then on neither the
\* store nor the abandoned cycle changes.
C7_ExitWithinGrace ==
    /\ []((isShuttingDown /\ ~exited) => now <= sigTime + GraceWindow)
    /\ []((isShuttingDown /\ exited)
            => exitCode = 0 /\ exitTime <= sigTime + GraceWindow)
    /\ [][exited => UNCHANGED <<storeVars, cycles>>]_vars

\* The process exited one grace window after the signal while a cycle was
\* still awaiting a query, with rows of that cycle already in the store.
C7_Witness ==
    /\ exited /\ exitCode = 0
    /\ exitTime = sigTime + GraceWindow
    /\ \E c \in CycleIds : cycles[c].pc \in {"upsert", "insert"}
    /\ Len(vehicle_state) > 0

\* C8: once isShuttingDown is true it stays true, and no later signal moves
\* the grace timer or the instant the shutdown is counted from.
C8_ShutdownOneShot ==
    [][isShuttingDown => /\ isShuttingDown'
                         /\ shutdownAt' = shutdownAt
                         /\ sigTime' = sigTime]_vars

\* A second signal was delivered during the grace wait, and the process
\* then exited at the instant the first one had set.
C8_Witness ==
    /\ signals = 2
    /\ exited /\ exitCode = 0
    /\ exitTime = sigTime + GraceWindow

\* C9: once the scheduler is stopped no tick starts a cycle; stopping it
\* leaves the running cycles as they are, and while the process lives each
\* of them can still take its next step.
C9_StopIsCooperative ==
    /\ [](isShuttingDown => ~timerActive /\ ~ENABLED Tick)
    /\ [](\A c \in CycleIds :
            (isShuttingDown /\ ~exited /\ Running(c)) => ENABLED CycleStep(c))
    /\ [][isShuttingDown => nCycles' = nCycles]_vars
    /\ [][(~isShuttingDown /\ isShuttingDown') => cycles' = cycles]_vars

\* The signal came mid-cycle before the first tick was due; the cycle ran
\* on and returned later within the grace wait, and the instant of the tick
\* has been reached with no second cycle started.
C9_Witness ==
    /\ isShuttingDown
    /\ sigMidCycle
    /\ drainTime > sigTime
    /\ now >= nextTick
    /\ nCycles = 1

\* C10: a cycle that fails (connect or query rejected) ends; the process
\* exits only through validateEnvironment or gracefulShutdown, the interval
\* stays armed until a signal arrives, and a due tick starts a cycle.
C10_CycleFailureNotFatal ==
    /\ exited => \/ (exitCode = 1 /\ nCycles = 0)
                 \/ (exitCode = 0 /\ isShuttingDown)
    /\ (ProcessAlive /\ ~isShuttingDown) => timerActive
    /\ (ProcessAlive /\ timerActive /\ now = nextTick /\ nCycles < MaxCycles)
         => ENABLED Tick
    /\ \A c \in CycleIds :
         cycles[c].failed
         => \/ cycles[c].pc = "done"
            \/ cycles[c].pc = "closing" /\ (ProcessAlive => ENABLED EndClient(c))

\* The first cycle failed to connect and returned; the tick started a
\* second cycle, which has connected.
C10_Witness ==
    /\ nCycles = 2
    /\ cycles[1].pc = "done" /\ cycles[1].failed
    /\ cycles[2].pc = "fetching"
    /\ ~isShuttingDown
    /\ vehicle = {}

\* C11: a failed fetch (no base URL, status not ok, transport error, body
\* that is no array) hands the cycle an empty array and raises nothing: the
\* cycle sends no query, leaves both tables as they are and returns without
\* an error.
C11_FailedFetchIsNoOp ==
    /\ [](\A resp \in Responses : fetchFromApi(FALSE, resp) = <<>>)
    /\ [](\A c \in CycleIds :
            cycles[c].fetched \in FetchFailures
            => /\ cycles[c].vehicles = <<>>
               /\ cycles[c].pc = "closing"
               /\ ~cycles[c].failed)
    /\ [][\A c \in CycleIds :
            (cycles[c].pc = "fetching" /\ cycles'[c] # cycles[c])
            => /\ storeVars' = storeVars
               /\ ~cycles'[c].failed]_vars
    /\ [][\A c \in CycleIds :
            (cycles[c].fetched \in FetchFailures /\ cycles'[c] # cycles[c])
            => /\ storeVars' = storeVars
               /\ cycles'[c].pc = "done"
               /\ ~cycles'[c].failed]_vars

\* A fetch answered with a body that is no array, in a cycle that found
\* rows of an earlier cycle in both tables and is about to return.
C11_Witness ==
    \E c \in CycleIds :
        /\ cycles[c].fetched = "nonArray"
        /\ cycles[c].pc = "closing"
        /\ vehicle # {}
        /\ Len(vehicle_state) > 0

C13_FirstFetchBeforeFirstTick == nCycles >= 2 => fetches >= 1

\* C13 (amended): cycle k starts at (k-1) periods after launch, the first
\* at launch and so before the first tick; until a signal arrives the timer
\* stays armed for the next multiple of the period and a due tick starts a
\* cycle; a fetch is made only by a cycle whose connect has resolved.
C13_CyclePerPeriod ==
    /\ []((ProcessAlive /\ ~isShuttingDown)
            => /\ nCycles >= 1
               /\ timerActive
               /\ nextTick = nCycles * Period
               /\ now <= nextTick)
    /\ []((ProcessAlive /\ ~isShuttingDown /\ now = nextTick
             /\ nCycles < MaxCycles) => ENABLED Tick)
    /\ [][nCycles' # nCycles
            => /\ nCycles' = nCycles + 1
               /\ now = nCycles * Period
               /\ cycles[nCycles'].pc = "idle"
               /\ cycles'[nCycles'].pc = "connecting"]_vars
    /\ [][fetches' # fetches
            => /\ fetches' = fetches + 1
               /\ \E c \in CycleIds : /\ cycles[c].pc = "connecting"
                                      /\ cycles'[c].pc = "fetching"
                                      /\ cycles'[c].connOpen]_vars

\* The tick at one period has started the second cycle while the first is
\* still connecting: no fetch has been made yet.
C13_Witness ==
    /\ nCycles = 2
    /\ now = Period
    /\ fetches = 0
    /\ cycles[1].pc = "connecting"
    /\ cycles[2].pc = "connecting"
    /\ ~isShuttingDown

\* C14: the vehicle table has at most one row per id; an acknowledged
\* upsert leaves the row of its id with the label and type of its record
\* and every other row as it was; no step removes the row of an id.
C14_VehicleUpsert ==
    /\ [](\A r1, r2 \in vehicle : r1.id = r2.id => r1 = r2)
    /\ [][\A r \in vehicle : \E r2 \in vehicle' : r2.id = r.id]_vars
    /\ [][\A c \in CycleIds :
            (/\ cycles[c].pc = "upsert"
             /\ cycles'[c] # cycles[c]
             /\ ~cycles'[c].failed)
            => /\ VehicleRow(Current(c)) \in vehicle'
               /\ \A r \in vehicle' : r.id # Current(c).id => r \in vehicle]_vars
    /\ [][vehicle' # vehicle
            => \E c \in CycleIds : /\ cycles[c].pc = "upsert"
                                   /\ cycles'[c] # cycles[c]]_vars

\* V1 was upserted as "Bus 1" (its row in vehicle_state comes from that
\* record) and later as "Bus 1b": one row, with the later label.
C14_Witness ==
    /\ \E i \in 1 .. Len(vehicle_state) : vehicle_state[i].vehicle_id = "V1"
    /\ \E r \in vehicle : r.id = "V1" /\ r.label = "Bus 1b"
    /\ Cardinality({r \in vehicle : r.id = "V1"}) = 1

\* C15: vehicle_state only grows at its end: the rows present stay as they
\* are, every acknowledged insert adds one row for its record, identical
\* content or not, and the keys of the rows are distinct.
C15_AppendOnly ==
    /\ [](\A i, j \in 1 .. Len(vehicle_state) :
            i # j => vehicle_state[i].id # vehicle_state[j].id)
    /\ [][/\ Len(vehicle_state') >= Len(vehicle_state)
          /\ SubSeq(vehicle_state', 1, Len(vehicle_state)) = vehicle_state]_vars
    /\ [][\A c \in CycleIds :
            (/\ cycles[c].pc = "insert"
             /\ cycles'[c] # cycles[c]
             /\ ~cycles'[c].failed)
            => /\ Len(vehicle_state') = Len(vehicle_state) + 1
               /\ vehicle_state'[Len(vehicle_state')].vehicle_id
                    = Current(c).id]_vars

\* The same record was loaded twice: two rows equal but for the key.
C15_Witness ==
    \E i, j \in 1 .. Len(vehicle_state) :
        /\ i < j
        /\ vehicle_state[i].vehicle_id = vehicle_state[j].vehicle_id
        /\ vehicle_state[i].timestamp = vehicle_state[j].timestamp
        /\ vehicle_state[i].id # vehicle_state[j].id

\* C16: a string with a written offset is normalized to the instant it
\* denotes, in the canonical zone, whatever the host zone and the offset:
\* any other string denoting the same instant gets the same result.
C16_ZoneInvariant ==
    (normPc = "done" /\ HasOffset(normRaw))
    => /\ normTs.isValid
       /\ normTs.zoneName = CanonicalZone
       /\ normTs.instant = DenotedInstant(normRaw)
       /\ \A s2 \in TimestampStrings :
            (HasOffset(s2) /\ DenotedInstant(s2) = DenotedInstant(normRaw))
            => parseTimestamp(s2, systemZone, nowHour) = normTs

\* A string written with offset -05:00 was normalized on a UTC host, and a
\* string with another offset denotes the same instant.
C16_Witness ==
    /\ normPc = "done"
    /\ HasOffset(normRaw)
    /\ normRaw.offset = 0 - 5
    /\ systemZone = "UTC"
    /\ normTs.isValid
    /\ \E s2 \in TimestampStrings :
         /\ HasOffset(s2)
         /\ s2.offset # normRaw.offset
         /\ DenotedInstant(s2) = DenotedInstant(normRaw)

\* C17: a string without zone or offset, of either shape, is read as the
\* wall clock of the canonical zone, and a canonical-zone instant formatted
\* as such a string is normalized back to itself.
C17_NaiveIsCanonicalLocal ==
    (normPc = "done" /\ IsNaive(normRaw))
    => /\ normTs.isValid
       /\ normTs.instant + ZoneOffset(CanonicalZone, normTs.instant)
            = normRaw.wall
       /\ \A i \in Instants :
            formatNaive(i, normRaw.form) = normRaw => normTs.instant = i

\* C18 (as claimed): the timestamp of a record is validated before any
\* write for it: no query is in flight for a record whose timestamp fails.
C18_ValidatedBeforeAnyWrite ==
    \A c \in CycleIds :
        cycles[c].pc \in {"upsert", "insert"} => ValidTimestamp(Current(c))

\* C18 (amended): the vehicle row of a record is written first and its
\* timestamp is validated after that, before the vehicle_state insert: a
\* record that fails is in the vehicle table and adds nothing to
\* vehicle_state.
C18_UpsertThenValidate ==
    /\ [](\A c \in CycleIds :
            cycles[c].pc = "insert"
            => /\ ValidTimestamp(Current(c))
               /\ VehicleRow(Current(c)).id \in {r.id : r \in vehicle})
    /\ [][\A c \in CycleIds :
            (/\ cycles[c].pc = "upsert"
             /\ ~ValidTimestamp(Current(c))
             /\ cycles'[c] # cycles[c]
             /\ ~cycles'[c].failed)
            => /\ VehicleRow(Current(c)) \in vehicle'
               /\ vehicle_state' = vehicle_state]_vars

\* Every cycle has returned; the record with the unparsable timestamp has
\* left its vehicle row and nothing in vehicle_state.
C18_Witness ==
    /\ nCycles >= 1
    /\ RunningCycles = {}
    /\ \E r \in vehicle : r.label = "Bus 1b"
    /\ vehicle_state = <<>>

\* C19: a connection is open only while the cycle that opened it is in
\* flight: a cycle that returns, by whatever path, has closed it, and the
\* close it awaits in finally can always complete.
C19_ConnectionClosedByCycle ==
    /\ [](\A c \in CycleIds : cycles[c].connOpen => Running(c))
    /\ [](RunningCycles = {} => OpenConnections = {})
    /\ [][\A c \in CycleIds :
            (Running(c) /\ cycles'[c].pc = "done") => ~cycles'[c].connOpen]_vars
    /\ [](\A c \in CycleIds :
            (cycles[c].pc = "closing" /\ ProcessAlive) => ENABLED EndClient(c))

\* Two cycles have returned, one through catch and one normally with rows
\* written, and no connection is open.
C19_Witness ==
    /\ nCycles = 2
    /\ RunningCycles = {}
    /\ cycles[1].failed /\ ~cycles[2].failed
    /\ Len(vehicle_state) > 0
    /\ OpenConnections = {}
====
